---- MODULE Spec2Model ----
(***************************************************************************)
(* State-machine model of src/app.py (a Streamlit skincare tracker).       *)
(*                                                                         *)
(* One action is one run of the script for one user interaction.  The     *)
(* script is executed top to bottom on every interaction, so each run      *)
(* starts by loading USERS and DATA from users.json / data.json           *)
(* (app.py:61-62) and every handler ends in save_data.  The variables     *)
(* USERS and DATA therefore stand for the two tables as they are at the    *)
(* end of a run, which is also the content of the two files (json.dump /  *)
(* json.load keep ints, booleans, strings, lists and string-keyed dicts   *)
(* as they are).  The specification SpecStore takes the runs of two        *)
(* sessions apart into the load at the top of the script and the handler   *)
(* with its save_data calls; there DATA is the content of data.json and    *)
(* sessions holds the copy each run has loaded.                            *)
(*                                                                         *)
(* Python dicts with optional keys are functions whose DOMAIN is the set   *)
(* of keys present; d.get(k, default) is Get(d, k, default).               *)
(* A date is a day number; date.today() is the variable today.             *)
(* The dict of step states keyed 'morning_0', 'morning_1', ... is the      *)
(* sequence of its values (index i+1 for key i); the dict of the 15        *)
(* checker tasks is a sequence of 15 booleans in the order of `tasks`.     *)
(***************************************************************************)
EXTENDS Integers, Sequences, FiniteSets, TLC

VARIABLES USERS,            \* users.json: username -> [password, salt]
          DATA,             \* data.json: username -> user record
          logged_in_user,   \* st.session_state['logged_in_user']
          today,            \* date.today()
          lastRun,          \* the error or exception the last script run ended with
          metric_streak,    \* the streak metric on the page now displayed
          awards,           \* history: what the finalize handlers did today, per user
          data_file_state,  \* what data.json is: absent, well-formed, or not
          sessions,         \* the script runs in progress, each with its own copy of DATA
          session_state_last_analysis   \* st.session_state['last_analysis'], NoAnalysis while not set

vars == <<USERS, DATA, logged_in_user, today, lastRun, metric_streak, awards,
          data_file_state, sessions, session_state_last_analysis>>

(***************************************************************************)
(* Bounds of the model.                                                    *)
(***************************************************************************)
MaxDay == 2            \* dates 1..MaxDay of the specification Spec
DayAnalyses == 1       \* analyses per user in Spec
MaxAnalyses == 2       \* analyses per user in SpecUsers
MaxChecked == 1        \* checker tasks ticked in one run: 0..MaxChecked
MaxPoints == 25        \* cap on a user's points (the checker can re-award)
MaxStreakDay == 102    \* dates 1..MaxStreakDay of SpecStreak
GapDays == 2           \* the first days, which SpecStreak may leave incomplete

Users == {"u1", "u2"}
None == "None"

(***************************************************************************)
(* Python helpers.                                                         *)
(***************************************************************************)
EmptyDict == [k \in {} |-> 0]

Get(d, k, default) == IF k \in DOMAIN d THEN d[k] ELSE default

Max(a, b) == IF a >= b THEN a ELSE b
Min(a, b) == IF a <= b THEN a ELSE b

\* variant: round(n/d), the nearest integer
Trunc_nearest(n, d) == (2 * n + d) \div (2 * d)

\* int(n/d) for d > 0: truncation toward zero
Trunc(n, d) == IF n >= 0 THEN n \div d ELSE -((-n) \div d)

RECURSIVE SumTrue(_)
SumTrue(s) == IF s = <<>> THEN 0
              ELSE (IF Head(s) THEN 1 ELSE 0) + SumTrue(Tail(s))

\* the checkbox values of a list of n boxes of which the first k are ticked
Ticked(n, k) == [i \in 1..n |-> i <= k]

(***************************************************************************)
(* Credentials (app.py:185-194).  SHA-256 of password + salt is modelled   *)
(* as the pair of the two strings: equal digests iff equal inputs.         *)
(***************************************************************************)
sha256(password, salt) == <<password, salt>>

hash_password(password, salt) == [password |-> sha256(password, salt), salt |-> salt]

check_password(hashed_password, password, salt) == hashed_password = sha256(password, salt)

(***************************************************************************)
(* The user record (app.py:196-216).                                       *)
(***************************************************************************)
NewUserRecord == [onboarding |-> EmptyDict,
                  analysis_history |-> <<>>,
                  points |-> 0,
                  kit |-> <<>>,
                  daily_completion |-> EmptyDict]

\* get_user_data: the table with username's record initialised if absent
get_user_data(D, username) ==
    IF username \in DOMAIN D THEN D ELSE (username :> NewUserRecord) @@ D

\* variant: the points are assigned instead of added
update_user_points_assign(D, username, points) ==
    [D EXCEPT ![username].points = points]

\* variant: the points are added to every record of the table
update_user_points_everyone(D, username, points) ==
    [u \in DOMAIN D |-> [D[u] EXCEPT !.points = @ + points]]

\* update_user_points: the table with the points of username increased
update_user_points(D, username, points) ==
    [D EXCEPT ![username].points = D[username].points + points]

(***************************************************************************)
(* Onboarding form values (app.py:354-355, 391-399).                       *)
(***************************************************************************)
CONCERNS == {"Acne", "Pigmentation", "Wrinkles", "Sensitivity", "Dryness", "Oily"}
SKIN_TYPES == {"Normal", "Dry", "Oily", "Combination", "Sensitive"}

\* the fields the engines read; name, age, location, language and timestamp are not read
OnboardingRecord(primary_concerns, skin_type) ==
    [primary_concerns |-> primary_concerns, skin_type |-> skin_type]

(***************************************************************************)
(* pseudo_analyze_image (app.py:593-720).  An uploaded file is             *)
(* [present, decodable, rgb_mean]: whether a file was uploaded, whether    *)
(* PIL can open it, and the three channel means (integers here).  The lifestyle factors are the four slider       *)
(* values, the water intake counted in half litres (slider step 0.5).      *)
(* The float expressions are evaluated as exact fractions over a common    *)
(* denominator; int() is Trunc.  Where the exact value of an expression is *)
(* an integer the double-precision value can fall just below it: FloatShort*)
(* lists the inputs for which it does, for the images of EngineFiles.      *)
(***************************************************************************)
FallbackFeatures == [brightness3 |-> 450, contrast_half |-> FALSE, red |-> FALSE]

\* app.py:602-628: 3 * avg_brightness, contrast_heuristic = 0.5, redness_factor = 1.2
image_features(uploaded_file) ==
    IF uploaded_file.present /\ uploaded_file.decodable
    THEN LET rgb_mean == uploaded_file.rgb_mean
             S == rgb_mean[1] + rgb_mean[2] + rgb_mean[3]
         IN  [brightness3 |-> S,
              contrast_half |-> (S < 300 \/ S > 600),
              red |-> (10 * rgb_mean[1] > 11 * rgb_mean[2] /\ 10 * rgb_mean[1] > 11 * rgb_mean[3])]
    ELSE FallbackFeatures

\* app.py:631: sleep_score * 5
sleep_score_5(lf) == lf.sleep_hours - 5

\* app.py:632: water_score * 8
water_score_8(lf) == lf.water_halves

\* app.py:633: stress_score * 10
stress_score_10(lf) == 10 - lf.stress_level

\* app.py:634: diet_score * 5
diet_score_5(lf) == lf.diet_quality

\* app.py:642-647: lifestyle_impact_score * 800
lifestyle_impact_800(lf) ==
    40 * sleep_score_5(lf) + 25 * water_score_8(lf)
      + 28 * stress_score_10(lf) + 24 * diet_score_5(lf)

\* app.py:640, 650: (base_image_score * 0.4 + lifestyle_impact_score * 0.6) * 100 * 6120
raw_score_6120(f, lf) ==
    128 * f.brightness3 + (IF f.contrast_half THEN 24480 ELSE 0)
      + 459 * lifestyle_impact_800(lf)

\* <<3 * avg_brightness, sleep_hours, water_halves, stress_level, diet_quality>> for
\* which the double-precision product of app.py:650 is below the integer it equals
FloatShort ==
    {<<0, 8, 8, 2, 4>>, <<0, 10, 8, 4, 3>>, <<0, 12, 4, 5, 5>>, <<0, 12, 8, 2, 4>>,
     <<0, 12, 8, 4, 3>>,
     <<765, 7, 8, 2, 4>>, <<765, 9, 8, 4, 3>>, <<765, 10, 4, 1, 2>>, <<765, 11, 4, 5, 5>>,
     <<765, 11, 8, 6, 2>>, <<765, 12, 4, 3, 1>>, <<765, 12, 8, 2, 4>>, <<765, 12, 8, 10, 5>>}

\* variant: the lower clamp is left out
current_score_no_floor(f, lf) ==
    LET num == raw_score_6120(f, lf)
        short == IF <<f.brightness3, lf.sleep_hours, lf.water_halves, lf.stress_level,
                      lf.diet_quality>> \in FloatShort THEN 1 ELSE 0
        raw == (IF f.red THEN Trunc(5 * num, 36720) ELSE Trunc(num, 6120)) - short
    IN  Min(95, raw)

\* app.py:640, 650-651: current_score
current_score_of(f, lf) ==
    LET num == raw_score_6120(f, lf)
        short == IF <<f.brightness3, lf.sleep_hours, lf.water_halves, lf.stress_level,
                      lf.diet_quality>> \in FloatShort THEN 1 ELSE 0
        raw == (IF f.red THEN Trunc(5 * num, 36720) ELSE Trunc(num, 6120)) - short
    IN  Max(50, Min(95, raw))

\* variant: the upper clamp is left out
hydration_score_unclamped(f, lf) ==
    Max(50, Trunc(11475 * lf.water_halves + 80 * f.brightness3, 1530))

\* app.py:656-657: hydration_score
hydration_score_of(f, lf) ==
    Max(50, Min(99, Trunc(11475 * lf.water_halves + 80 * f.brightness3, 1530)))

\* app.py:668-669: pigmentation_risk_pct
pigmentation_risk_pct_of(f, lf) ==
    LET num == 137700 - 24 * f.brightness3 - (IF f.contrast_half THEN 4590 ELSE 0)
                 - 3825 * lf.water_halves                  \* raw risk * 3060
    IN  Min(70, Max(5, Trunc(num, 3060)))

\* app.py:661-665: acne_risk_pct
acne_risk_pct_of(current_score, lf, skin_type) ==
    LET oily == IF skin_type \in {"Oily", "Combination"} THEN 20 ELSE 0
        raw == Trunc(120 - current_score + oily + 3 * lf.stress_level - 4 * lf.diet_quality, 2)
    IN  Min(90, Max(10, raw))

\* the integer next to t on the side of zero: what int() returns when the
\* double-precision value falls just inside the integer t it equals exactly
TowardZero(t) == IF t > 0 THEN t - 1 ELSE IF t < 0 THEN t + 1 ELSE 0

\* <<sleep_hours, water_halves, stress_level, diet_quality>> for which the
\* double-precision product of app.py:672 falls just inside the integer it equals
FloatShortDelta ==
    {<<4, 4, 1, 2>>, <<4, 4, 5, 5>>, <<4, 8, 2, 4>>, <<4, 8, 8, 1>>, <<5, 4, 3, 1>>,
     <<5, 8, 4, 3>>, <<5, 8, 6, 2>>, <<5, 8, 10, 5>>, <<6, 8, 2, 4>>, <<6, 8, 4, 3>>,
     <<6, 8, 8, 1>>, <<7, 4, 7, 4>>, <<7, 8, 2, 4>>, <<7, 8, 4, 3>>, <<8, 4, 5, 5>>,
     <<8, 4, 9, 3>>, <<8, 8, 2, 4>>, <<8, 8, 4, 3>>, <<9, 4, 1, 2>>, <<9, 4, 3, 1>>,
     <<9, 8, 6, 2>>, <<9, 8, 10, 5>>, <<10, 4, 7, 4>>, <<10, 8, 4, 3>>, <<10, 8, 6, 2>>,
     <<10, 8, 8, 1>>, <<11, 4, 3, 1>>, <<11, 4, 9, 3>>, <<12, 4, 5, 5>>, <<12, 4, 7, 4>>,
     <<12, 4, 9, 3>>, <<12, 8, 2, 4>>, <<12, 8, 4, 3>>, <<12, 8, 8, 1>>}

\* app.py:672: future_delta
future_delta_of(lf) ==
    LET t == Trunc(lifestyle_impact_800(lf) - 400, 40)
    IN  IF <<lf.sleep_hours, lf.water_halves, lf.stress_level, lf.diet_quality>>
             \in FloatShortDelta
        THEN TowardZero(t) ELSE t

\* variant: the improvement is not floored at zero
projection_unfloored(current_score, delta) == Min(100, current_score + delta)

\* app.py:674-676: min(100, current_score + max(0, delta))
projection(current_score, delta) == Min(100, current_score + Max(0, delta))

\* app.py:674: future_delta // 3 is the floor division
proj_7_of(current_score, future_delta) == projection(current_score, future_delta \div 3)

\* app.py:675
proj_30_of(current_score, future_delta) == projection(current_score, future_delta)

\* app.py:676
proj_90_of(current_score, future_delta) == projection(current_score, future_delta * 2)

\* variant: the acne risk alone decides
pore_visibility_by_risk(skin_type, acne_risk_pct) ==
    IF acne_risk_pct > 50 THEN "High" ELSE "Low"

\* app.py:709: pore_visibility_estimate
pore_visibility_estimate_of(skin_type, acne_risk_pct) ==
    IF skin_type \in {"Oily", "Combination"} \/ acne_risk_pct > 50 THEN "High" ELSE "Low"

\* sleep_hours for which the double-precision product of app.py:710 falls just
\* inside the integer it equals
FloatShortSleep == {9, 11, 12}

\* app.py:710: sleep_impact_pct = int((1 - sleep_score) * 100)
sleep_impact_pct_of(lf) ==
    LET t == Trunc(100 * (5 - sleep_score_5(lf)), 5)
    IN  IF lf.sleep_hours \in FloatShortSleep THEN TowardZero(t) ELSE t

\* stress_level for which the double-precision product of app.py:711 falls just
\* below the integer it equals
FloatShortStress == {1, 2}

\* app.py:711: stress_impact_pct = int((1 - stress_score) * 100)
stress_impact_pct_of(lf) ==
    LET t == Trunc(100 * (10 - stress_score_10(lf)), 10)
    IN  IF lf.stress_level \in FloatShortStress THEN TowardZero(t) ELSE t

\* app.py:682-689: the two routines
routine_morning_of ==
    <<"Cleanse: Gentle Hydrating Cleanser", "Treat: Vitamin C Serum", "Protect: SPF 30+ Sunscreen">>

\* variant: the two adjustments exclude each other
routine_evening_one_override(primary_concerns, acne_risk_pct) ==
    LET base == <<"Cleanse: Double Cleanse (Oil + Foam)", "Treat: Niacinamide Serum",
                  "Moisturize: Barrier Repair Cream">>
    IN  IF "Acne" \in primary_concerns \/ acne_risk_pct > 50
        THEN [base EXCEPT ![2] = "Treat: Salicylic Acid (BHA) Serum"]
        ELSE IF "Wrinkles" \in primary_concerns
        THEN Append(base, "Treat: Retinoid Cream (3x/week)")
        ELSE base

routine_evening_of(primary_concerns, acne_risk_pct) ==
    LET base == <<"Cleanse: Double Cleanse (Oil + Foam)", "Treat: Niacinamide Serum",
                  "Moisturize: Barrier Repair Cream">>
        treated == IF "Acne" \in primary_concerns \/ acne_risk_pct > 50
                   THEN [base EXCEPT ![2] = "Treat: Salicylic Acid (BHA) Serum"]
                   ELSE base
    IN  IF "Wrinkles" \in primary_concerns
        THEN Append(treated, "Treat: Retinoid Cream (3x/week)")
        ELSE treated

\* app.py:661-720: the breakdown and the returned dictionary, from the score
analysis_results_of(f, lifestyle_factors, user_data, now, current_score) ==
    LET onboard_skin_type == user_data.onboarding.skin_type
        acne_risk_pct == acne_risk_pct_of(current_score, lifestyle_factors, onboard_skin_type)
        future_delta == future_delta_of(lifestyle_factors)
    IN  [timestamp |-> now,
         image_features |-> [avg_brightness3 |-> f.brightness3, redness_factor_12 |-> f.red],
         lifestyle_factors |-> lifestyle_factors,
         detected_skin_type |-> onboard_skin_type,
         current_score |-> current_score,
         future_score_proj_7 |-> proj_7_of(current_score, future_delta),
         future_score_proj_30 |-> proj_30_of(current_score, future_delta),
         future_score_proj_90 |-> proj_90_of(current_score, future_delta),
         hydration_score |-> hydration_score_of(f, lifestyle_factors),
         acne_risk_pct |-> acne_risk_pct,
         pigmentation_risk_pct |-> pigmentation_risk_pct_of(f, lifestyle_factors),
         pore_visibility_estimate |-> pore_visibility_estimate_of(onboard_skin_type, acne_risk_pct),
         sleep_impact_pct |-> sleep_impact_pct_of(lifestyle_factors),
         stress_impact_pct |-> stress_impact_pct_of(lifestyle_factors),
         routine_morning |-> routine_morning_of,
         routine_evening |-> routine_evening_of(user_data.onboarding.primary_concerns, acne_risk_pct)]

\* variant: the score is lowered by the number of analyses the user already has
pseudo_analyze_image_reads_history(uploaded_file, lifestyle_factors, user_data, now) ==
    LET f == image_features(uploaded_file)
    IN  analysis_results_of(f, lifestyle_factors, user_data, now,
                            Max(50, current_score_of(f, lifestyle_factors)
                                      - Len(user_data.analysis_history)))

\* app.py:593-720
pseudo_analyze_image(uploaded_file, lifestyle_factors, user_data, now) ==
    LET f == image_features(uploaded_file)
    IN  analysis_results_of(f, lifestyle_factors, user_data, now,
                            current_score_of(f, lifestyle_factors))

(***************************************************************************)
(* Streak of the dashboard (app.py:430-450).                               *)
(***************************************************************************)
RangeStop == 100       \* range(1, 100)

is_complete_on(daily_completions, day) ==
    Get(Get(daily_completions, day, EmptyDict), "is_complete", FALSE)

\* the loop of app.py:443-448: iteration i adds one unless it or an earlier
\* iteration reached the break
StreakWalk(daily_completions, t) ==
    Cardinality({i \in 1..(RangeStop - 1) :
                    \A j \in 1..i : is_complete_on(daily_completions, t - j)})

\* variant: the walk starts at today
streak_count_from_today(daily_completions, t) ==
    IF is_complete_on(daily_completions, t - 1)
    THEN Cardinality({i \in 0..(RangeStop - 2) :
                         \A j \in 0..i : is_complete_on(daily_completions, t - j)})
    ELSE 0

streak_count_of(daily_completions, t) ==
    IF is_complete_on(daily_completions, t - 1)
    THEN StreakWalk(daily_completions, t)
    ELSE 0

(***************************************************************************)
(* History variables: what the finalize handlers granted.                  *)
(***************************************************************************)
NoAward == [routine |-> 0,          \* points granted by routine finalize
            checker |-> 0,          \* points granted by checker finalize
            finalizes |-> 0,        \* routine finalizes performed: 0, 1, or 2 for more
            called |-> FALSE,       \* a checker finalize was performed
            cmax |-> 0,             \* largest task count among the checker finalizes
            clast |-> 0,            \* task count of the last of them
            mono |-> TRUE]          \* their counts never decreased

AwardOf(u) == Get(awards, u, NoAward)

\* what a run ended with: the key of its st.error message or the exception that
\* stopped it, "ok" for a run that ended with neither (success, info, warning)
Errors == {"invalid_cred", "user_exists", "empty", "KeyError", "UnidentifiedImageError",
           "DuplicateWidgetID", "IndexError"}
Run(page, outcome) == IF outcome \in Errors THEN outcome ELSE "ok"

(***************************************************************************)
(* Inputs of the main specification.                                       *)
(***************************************************************************)
Passwords == {"pw"}
Salts == {"s1"}
NoFile == [present |-> FALSE, decodable |-> FALSE, rgb_mean |-> <<0, 0, 0>>]
Files == {NoFile,
          [present |-> TRUE, decodable |-> FALSE, rgb_mean |-> <<0, 0, 0>>],
          [present |-> TRUE, decodable |-> TRUE, rgb_mean |-> <<150, 150, 150>>]}
Lifestyles == {[sleep_hours |-> 7, water_halves |-> 4, stress_level |-> 5, diet_quality |-> 3],
               [sleep_hours |-> 4, water_halves |-> 1, stress_level |-> 10, diet_quality |-> 1]}
Profiles == {[primary_concerns |-> {}, skin_type |-> "Normal"],
             [primary_concerns |-> {"Wrinkles"}, skin_type |-> "Oily"]}
DefaultProfile == [primary_concerns |-> {}, skin_type |-> "Normal"]
DefaultLifestyle == [sleep_hours |-> 7, water_halves |-> 4, stress_level |-> 5, diet_quality |-> 3]
GreyImage == [present |-> TRUE, decodable |-> TRUE, rgb_mean |-> <<150, 150, 150>>]
NumTasks == 15         \* len(tasks), app.py:1338-1354

\* st.session_state without the key 'last_analysis'
NoAnalysis == EmptyDict

\* the streak metric: the day it was computed on and its value; NoMetric on the
\* pages that show none
NoMetric == [on |-> 0, count |-> 0]

(***************************************************************************)
(* login_register_page (app.py:224-281), shown while nobody is logged in.  *)
(***************************************************************************)
\* variant: the form never looks the username up
username_taken_unchecked(U, new_username) == FALSE

\* app.py:272
username_taken(U, new_username) == new_username \in DOMAIN U

Register(new_username, new_password, salt) ==
    /\ logged_in_user = None
    /\ IF username_taken(USERS, new_username)
       THEN /\ lastRun' = Run("Register", "user_exists")
            /\ UNCHANGED <<USERS, DATA>>
       ELSE IF new_username = "" \/ new_password = ""
       THEN /\ lastRun' = Run("Register", "empty")
            /\ UNCHANGED <<USERS, DATA>>
       ELSE /\ USERS' = (new_username :> hash_password(new_password, salt)) @@ USERS
            /\ DATA' = get_user_data(DATA, new_username)
            /\ lastRun' = Run("Register", "reg_success")
    /\ metric_streak' = NoMetric
    /\ UNCHANGED <<logged_in_user, today, awards, data_file_state, sessions, session_state_last_analysis>>

\* variant: an unknown username gets a message of its own
login_outcome_names_unknown(U, username, password) ==
    IF username \in DOMAIN U
    THEN IF check_password(U[username].password, password, U[username].salt)
         THEN "login_success"
         ELSE "invalid_cred"
    ELSE "unknown_user"

\* app.py:251-261: the message of a submitted login form
login_outcome(U, username, password) ==
    IF username \in DOMAIN U
    THEN IF check_password(U[username].password, password, U[username].salt)
         THEN "login_success"
         ELSE "invalid_cred"
    ELSE "invalid_cred"

Login(username, password) ==
    /\ logged_in_user = None
    /\ LET outcome == login_outcome(USERS, username, password)
       IN  /\ logged_in_user' = IF outcome = "login_success" THEN username ELSE logged_in_user
           /\ lastRun' = Run("Login", outcome)
    /\ metric_streak' = NoMetric
    /\ UNCHANGED <<USERS, DATA, today, awards, data_file_state, sessions, session_state_last_analysis>>

\* sidebar_menu (app.py:346-349)
Logout ==
    /\ logged_in_user # None
    /\ logged_in_user' = None
    /\ lastRun' = Run("Login", "logout")
    /\ metric_streak' = NoMetric
    /\ UNCHANGED <<USERS, DATA, today, awards, data_file_state, sessions, session_state_last_analysis>>

(***************************************************************************)
(* onboarding_page, form submitted (app.py:358-403).                       *)
(***************************************************************************)
Onboarding(primary_concerns, skin_type) ==
    /\ logged_in_user # None
    /\ LET username == logged_in_user
           D == get_user_data(DATA, username)
       IN  DATA' = [D EXCEPT ![username].onboarding =
                        OnboardingRecord(primary_concerns, skin_type)]
    /\ lastRun' = Run("Onboarding", "saved")
    /\ metric_streak' = NoMetric
    /\ UNCHANGED <<USERS, logged_in_user, today, awards, data_file_state, sessions, session_state_last_analysis>>

(***************************************************************************)
(* dashboard_page (app.py:405-450).                                        *)
(***************************************************************************)
Dashboard ==
    /\ logged_in_user # None
    /\ LET username == logged_in_user
           D == get_user_data(DATA, username)
           user_data == D[username]
       IN  /\ DATA' = D
           /\ IF DOMAIN user_data.onboarding = {}
              THEN /\ lastRun' = Run("Dashboard", "needs_onboarding")
                   /\ metric_streak' = NoMetric
              ELSE /\ lastRun' = Run("Dashboard", "shown")
                   /\ metric_streak' = [on |-> today,
                                        count |-> streak_count_of(user_data.daily_completion,
                                                                  today)]
    /\ UNCHANGED <<USERS, logged_in_user, today, awards, data_file_state, sessions, session_state_last_analysis>>

(***************************************************************************)
(* skin_analyzer_page (app.py:722-776).                                    *)
(***************************************************************************)
\* variant: only the first analysis of a user grants points
save_analysis_first_only(D, username, analysis_results) ==
    LET D1 == [D EXCEPT ![username].analysis_history = Append(@, analysis_results)]
    IN  IF D[username].analysis_history = <<>> THEN update_user_points(D1, username, 10) ELSE D1

\* variant: the result is put in front of the history
save_analysis_prepend(D, username, analysis_results) ==
    update_user_points([D EXCEPT ![username].analysis_history = <<analysis_results>> \o @],
                       username, 10)

\* app.py:769-772: the result is appended and 10 points are granted
save_analysis(D, username, analysis_results) ==
    update_user_points([D EXCEPT ![username].analysis_history = Append(@, analysis_results)],
                       username, 10)

\* app.py:778: the report section is rendered
analysis_shown(session_last_analysis, user_data) ==
    session_last_analysis # NoAnalysis \/ user_data.analysis_history # <<>>

\* app.py:780: st.session_state.get('last_analysis', user_data['analysis_history'][-1])
current_analysis_of(session_last_analysis, user_data) ==
    IF session_last_analysis # NoAnalysis
    THEN session_last_analysis
    ELSE user_data.analysis_history[Len(user_data.analysis_history)]

SkinAnalyzer(uploaded_file, lifestyle_factors, analyze_submitted) ==
    /\ logged_in_user # None
    /\ LET username == logged_in_user
           D == get_user_data(DATA, username)
           user_data == D[username]
       IN  IF DOMAIN user_data.onboarding = {}
           THEN /\ DATA' = D
                /\ lastRun' = Run("Skin Analyzer", "needs_onboarding")
                /\ UNCHANGED session_state_last_analysis
           ELSE IF uploaded_file.present /\ ~uploaded_file.decodable
           THEN \* Image.open of the preview (app.py:754) raises
                /\ DATA' = D
                /\ lastRun' = Run("Skin Analyzer", "UnidentifiedImageError")
                /\ UNCHANGED session_state_last_analysis
           ELSE IF analyze_submitted /\ uploaded_file.present
           THEN \* the rerun of app.py:776 shows the result just stored
                LET analysis_results ==
                        pseudo_analyze_image(uploaded_file, lifestyle_factors, user_data, today)
                IN  /\ DATA' = save_analysis(D, username, analysis_results)
                    /\ session_state_last_analysis' = analysis_results
                    /\ lastRun' = Run("Skin Analyzer", "analysis_complete")
           ELSE /\ DATA' = D
                /\ lastRun' = Run("Skin Analyzer",
                                  IF analysis_shown(session_state_last_analysis, user_data)
                                       /\ user_data.analysis_history = <<>>
                                  THEN "IndexError"    \* [-1] of the empty history, app.py:780
                                  ELSE "render")
                /\ UNCHANGED session_state_last_analysis
    /\ metric_streak' = NoMetric
    /\ UNCHANGED <<USERS, logged_in_user, today, awards, data_file_state, sessions>>

(***************************************************************************)
(* my_routine_page (app.py:831-924).  morning_ticked and evening_ticked    *)
(* are the numbers of ticked checkboxes (the first boxes of each list).    *)
(***************************************************************************)
\* variant: the entry becomes the whole dictionary
store_entry_alone(D, username, today_str, entry) ==
    [D EXCEPT ![username].daily_completion = (today_str :> entry)]

\* app.py:913: user_data['daily_completion'][today_str] = entry
store_entry(D, username, today_str, entry) ==
    [D EXCEPT ![username].daily_completion = (today_str :> entry) @@ @]

\* variant: the run's copy is written to the file
unsaved_written(D, ticked_copy) == ticked_copy

\* the table a run leaves in data.json when its checkbox loops (app.py:864-887,
\* 1364-1385) have written the boxes into its copy of DATA and no save_data call
\* follows: the copy is dropped with the run
unsaved(D, ticked_copy) == D

\* the loop of app.py:864-871 writes the keys of the current routine into the stored dict
merge_steps(stored, boxes) ==
    IF Len(stored) > Len(boxes)
    THEN boxes \o SubSeq(stored, Len(boxes) + 1, Len(stored))
    ELSE boxes

\* variant: the guard reads a key that is never written
already_complete_wrong_key(user_data, today_str) ==
    Get(Get(user_data.daily_completion, today_str, EmptyDict), "complete", FALSE)

\* app.py:903: the date's entry says is_complete
already_complete(user_data, today_str) ==
    Get(Get(user_data.daily_completion, today_str, EmptyDict), "is_complete", FALSE)

TickChoices == {"none", "most", "all"}
FewTicks == {"none", "all"}
TickCount(n, choice) == IF choice = "none" THEN 0 ELSE IF choice = "most" THEN n - 1 ELSE n

MyRoutine(morning_choice, evening_choice, finalize_clicked) ==
    /\ logged_in_user # None
    /\ LET username == logged_in_user
           D == get_user_data(DATA, username)
           user_data == D[username]
           today_str == today
           stored == Get(user_data.daily_completion, today_str, EmptyDict)
       IN  IF user_data.analysis_history = <<>>
           THEN /\ DATA' = D
                /\ lastRun' = Run("My Routine", "analysis_not_found")
                /\ UNCHANGED awards
           ELSE IF today_str \in DOMAIN user_data.daily_completion /\ "morning" \notin DOMAIN stored
           THEN \* daily_completion['morning'] (app.py:866) raises KeyError
                /\ DATA' = D
                /\ lastRun' = Run("My Routine", "KeyError")
                /\ UNCHANGED awards
           ELSE
             LET last_analysis == user_data.analysis_history[Len(user_data.analysis_history)]
                 daily_completion == Get(user_data.daily_completion, today_str,
                                         [morning |-> <<>>, evening |-> <<>>])
                 total_morning == Len(last_analysis.routine_morning)
                 total_evening == Len(last_analysis.routine_evening)
                 morning_completed == TickCount(total_morning, morning_choice)
                 evening_completed == TickCount(total_evening, evening_choice)
                 morning == merge_steps(daily_completion.morning,
                                        Ticked(total_morning, morning_completed))
                 evening == merge_steps(daily_completion.evening,
                                        Ticked(total_evening, evening_completed))
                 total_steps == total_morning + total_evening
                 total_completed == morning_completed + evening_completed
                 is_complete_today == (total_completed = total_steps)
                 points_to_award == IF is_complete_today THEN 5 ELSE 0
                 D1 == store_entry(D, username, today_str,
                                   [morning |-> morning,
                                    evening |-> evening,
                                    is_complete |-> is_complete_today,
                                    points_awarded |-> points_to_award])
                 a == AwardOf(username)
                 \* the stored entry is the dict the loops write into, the default is not
                 ticked_copy ==
                     IF today_str \in DOMAIN user_data.daily_completion
                     THEN [D EXCEPT ![username].daily_completion[today_str] =
                              [morning |-> morning, evening |-> evening] @@ @]
                     ELSE D
             IN  IF ~finalize_clicked
                 THEN /\ DATA' = unsaved(D, ticked_copy)
                      /\ lastRun' = Run("My Routine", "render")
                      /\ UNCHANGED awards
                 ELSE IF ~already_complete(user_data, today_str)
                 THEN /\ DATA' = IF points_to_award > 0
                                 THEN update_user_points(D1, username, points_to_award)
                                 ELSE D1
                      /\ lastRun' = Run("My Routine",
                                        IF is_complete_today THEN "good_job" ELSE "more_work")
                      /\ awards' = (username :>
                                      [a EXCEPT !.routine = @ + points_to_award,
                                                !.finalizes = Min(@ + 1, 2)]) @@ awards
                 ELSE /\ DATA' = D
                      /\ lastRun' = Run("My Routine", "already_finalized")
                      /\ awards' = (username :>
                                      [a EXCEPT !.finalizes = Min(@ + 1, 2)]) @@ awards
    /\ metric_streak' = NoMetric
    /\ UNCHANGED <<USERS, logged_in_user, today, data_file_state, sessions, session_state_last_analysis>>

(***************************************************************************)
(* daily_routine_ai_checker_page (app.py:1327-1424).  ticked is the number *)
(* of ticked tasks (the first tasks of the list).                          *)
(***************************************************************************)
\* variant: a lower score is reconciled, the difference is taken back
checker_finalize_clawback(D, username, today_str, daily_completion, current_checker, current_score) ==
    LET already_awarded == Get(daily_completion, "checker_points_awarded", 0)
        new_points == current_score - already_awarded
    IN  IF new_points # 0
        THEN [update_user_points(D, username, new_points)
                EXCEPT ![username].daily_completion =
                   (today_str :> ([checker |-> current_checker,
                                   checker_points_awarded |-> current_score]
                                    @@ daily_completion)) @@ @]
        ELSE D

\* app.py:1399-1422: the table after the finalize button
checker_finalize(D, username, today_str, daily_completion, current_checker, current_score) ==
    LET already_awarded == Get(daily_completion, "checker_points_awarded", 0)
        new_points == current_score - already_awarded
    IN  IF new_points > 0
        THEN [update_user_points(D, username, new_points)
                EXCEPT ![username].daily_completion =
                   (today_str :> ([checker |-> current_checker,
                                   checker_points_awarded |-> current_score]
                                    @@ daily_completion)) @@ @]
        ELSE IF new_points < 0
        THEN [D EXCEPT ![username].daily_completion =
                   (today_str :> ([checker |-> current_checker] @@ daily_completion)) @@ @]
        ELSE D

DailyChecker(ticked, finalize_clicked) ==
    /\ logged_in_user # None
    /\ LET username == logged_in_user
           D == get_user_data(DATA, username)
           user_data == D[username]
           today_str == today
           daily_completion == Get(user_data.daily_completion, today_str, [checker |-> <<>>])
           current_checker == merge_steps(Get(daily_completion, "checker", <<>>),
                                          Ticked(NumTasks, ticked))
           completed_tasks == SumTrue(current_checker)
           current_score == completed_tasks * 5
           already_awarded == Get(daily_completion, "checker_points_awarded", 0)
           new_points == current_score - already_awarded
           a == AwardOf(username)
           a1 == [a EXCEPT !.called = TRUE,
                           !.cmax = Max(@, completed_tasks),
                           !.clast = completed_tasks,
                           !.mono = @ /\ (~a.called \/ completed_tasks >= a.clast),
                           !.checker = @ + Max(new_points, 0)]
           \* a stored 'checker' dict is the dict the loops write into
           ticked_copy ==
               IF today_str \in DOMAIN user_data.daily_completion
                    /\ "checker" \in DOMAIN daily_completion
               THEN [D EXCEPT ![username].daily_completion[today_str].checker = current_checker]
               ELSE D
       IN  IF ~finalize_clicked
           THEN /\ DATA' = unsaved(D, ticked_copy)
                /\ lastRun' = Run("Daily Routine AI Checker", "render")
                /\ UNCHANGED awards
           ELSE /\ awards' = (username :> a1) @@ awards
                /\ DATA' = checker_finalize(D, username, today_str, daily_completion,
                                            current_checker, current_score)
                /\ lastRun' = Run("Daily Routine AI Checker", "finalized")
    /\ metric_streak' = NoMetric
    /\ UNCHANGED <<USERS, logged_in_user, today, data_file_state, sessions, session_state_last_analysis>>

(***************************************************************************)
(* product_marketplace_page (app.py:926-1000) and personalized_kit_page    *)
(* (app.py:1002-1036).  clicked is the id of the product whose button was  *)
(* pressed, 0 for a run without a pressed button.                          *)
(***************************************************************************)
PRODUCTS ==
    <<[id |-> 1, name |-> "Hydrating Gentle Cleanser", concern |-> {"Dryness", "Sensitivity"},
       ingredients |-> {"Ceramides", "Hyaluronic Acid"}],
      [id |-> 2, name |-> "2% Salicylic Acid Serum", concern |-> {"Acne", "Oily"},
       ingredients |-> {"Salicylic Acid", "Niacinamide"}],
      [id |-> 3, name |-> "Vitamin C Brightening Serum", concern |-> {"Pigmentation", "Wrinkles"},
       ingredients |-> {"Ascorbic Acid", "Vitamin E"}],
      [id |-> 4, name |-> "Mineral SPF 50 Sunscreen", concern |-> {"All"},
       ingredients |-> {"Zinc Oxide", "Titanium Dioxide"}],
      [id |-> 5, name |-> "Retinol 0.5% Night Cream", concern |-> {"Wrinkles"},
       ingredients |-> {"Retinol", "Peptides"}]>>

\* app.py:948-954
filtered_products_of(selected_concerns, selected_ingredients) ==
    LET by_concern(p) == selected_concerns = {} \/ p.concern \cap selected_concerns # {}
        by_ingredient(p) == selected_ingredients = {} \/ p.ingredients \cap selected_ingredients # {}
    IN  SelectSeq(SelectSeq(PRODUCTS, by_concern), by_ingredient)

\* variant: the ids are not collected
kit_ids_none(kit) == {}

\* app.py:959
kit_ids(kit) == {kit[i].id : i \in 1..Len(kit)}

\* app.py:995-999
kit_add(kit, product) ==
    Append(kit, [id |-> product.id, name |-> product.name, concern |-> product.concern])

\* app.py:988, 1033
kit_remove(kit, product_id) ==
    LET other(p) == p.id # product_id
    IN  SelectSeq(kit, other)

Marketplace(selected_concerns, selected_ingredients, clicked) ==
    /\ logged_in_user # None
    /\ LET username == logged_in_user
           D == get_user_data(DATA, username)
           user_data == D[username]
           filtered_products == filtered_products_of(selected_concerns, selected_ingredients)
           ids == kit_ids(user_data.kit)
           \* the products the loop reaches: it stops at the first one that is in the
           \* kit, whose two buttons have the same key (app.py:986-987)
           reached(i) == \A j \in 1..(i - 1) : filtered_products[j].id \notin ids
           saved == {i \in 1..Len(filtered_products) :
                        /\ reached(i)
                        /\ filtered_products[i].id \notin ids
                        /\ filtered_products[i].id = clicked}
       IN  IF saved # {}
           THEN /\ DATA' = [D EXCEPT ![username].kit =
                               kit_add(@, filtered_products[CHOOSE i \in saved : TRUE])]
                /\ lastRun' = Run("Product Marketplace", "added")
           ELSE IF \E i \in 1..Len(filtered_products) : filtered_products[i].id \in ids
           THEN /\ DATA' = D
                /\ lastRun' = Run("Product Marketplace", "DuplicateWidgetID")
           ELSE /\ DATA' = D
                /\ lastRun' = Run("Product Marketplace", "render")
    /\ metric_streak' = NoMetric
    /\ UNCHANGED <<USERS, logged_in_user, today, awards, data_file_state, sessions, session_state_last_analysis>>

PersonalizedKit(clicked) ==
    /\ logged_in_user # None
    /\ LET username == logged_in_user
           D == get_user_data(DATA, username)
           kit == D[username].kit
       IN  IF kit # <<>> /\ clicked \in kit_ids(kit)
           THEN /\ DATA' = [D EXCEPT ![username].kit = kit_remove(@, clicked)]
                /\ lastRun' = Run("Personalized Kit", "removed")
           ELSE /\ DATA' = D
                /\ lastRun' = Run("Personalized Kit", "render")
    /\ metric_streak' = NoMetric
    /\ UNCHANGED <<USERS, logged_in_user, today, awards, data_file_state, sessions, session_state_last_analysis>>

(***************************************************************************)
(* The store and the script runs of two sessions.  data.json is absent,    *)
(* well-formed ("ok"), text that is not JSON ("bad_json") or bytes that    *)
(* are not text ("bad_bytes").  A run loads the file at the top of the     *)
(* script (app.py:62), then the page of the session's user mutates the     *)
(* loaded copy and calls save_data; each save_data call can fail, in which *)
(* case the file stays as it was.                                          *)
(***************************************************************************)
SessionIds == {"A", "B"}

IdleSession == [pc |-> "idle", username |-> None, DATA |-> EmptyDict, shown |-> {},
                saved |-> FALSE]

\* load_data (app.py:37-48): what it raises, what it returns, what it shows and the file
\* it leaves
load_data(file_state, content, default_data) ==
    IF file_state = "ok"
    THEN [raised |-> None, value |-> content, shown |-> {},
          file_state |-> "ok", content |-> content]
    ELSE IF file_state = "absent"              \* FileNotFoundError
    THEN [raised |-> None, value |-> default_data, shown |-> {},
          file_state |-> "ok", content |-> default_data]
    ELSE IF file_state = "bad_json"            \* json.JSONDecodeError
    THEN [raised |-> None, value |-> default_data, shown |-> {"decode_error"},
          file_state |-> file_state, content |-> content]
    ELSE \* f.read() raises UnicodeDecodeError, which no except clause names
         [raised |-> "UnicodeDecodeError", value |-> default_data, shown |-> {},
          file_state |-> file_state, content |-> content]

\* variant: records that are in the file are kept
save_data_keep_file(content, data) == content @@ data

\* save_data (app.py:50-54), a call that succeeds: the file holds the whole table
save_data(content, data) == data

StoreLoad(s, username) ==
    /\ sessions[s].pc = "idle"
    /\ LET loaded == load_data(data_file_state, DATA, EmptyDict)
       IN  /\ data_file_state' = loaded.file_state
           /\ DATA' = loaded.content
           /\ sessions' = [sessions EXCEPT ![s] =
                  [pc |-> IF loaded.raised = None THEN "loaded" ELSE "crashed",
                   username |-> username,
                   DATA |-> loaded.value,
                   shown |-> loaded.shown,
                   saved |-> FALSE]]
    /\ UNCHANGED <<USERS, logged_in_user, today, lastRun, metric_streak, awards, session_state_last_analysis>>

StoreOps == {"onboarding", "analysis", "checker", "kit_add", "kit_remove"}

\* the tables the save_data calls of a handler write, in the order of the calls
op_snapshots(D, username, op, today_str) ==
    LET user_data == D[username]
    IN  IF op = "onboarding"                   \* app.py:390-399
        THEN <<[D EXCEPT ![username].onboarding =
                   OnboardingRecord(DefaultProfile.primary_concerns, DefaultProfile.skin_type)]>>
        ELSE IF op = "analysis"                \* app.py:758-772
        THEN IF DOMAIN user_data.onboarding = {}
             THEN <<>>
             ELSE LET D1 == save_analysis(D, username,
                               pseudo_analyze_image(GreyImage, DefaultLifestyle, user_data,
                                                    today_str))
                  IN  <<D1, D1>>
        ELSE IF op = "checker"                 \* app.py:1399-1420
        THEN LET daily_completion == Get(user_data.daily_completion, today_str,
                                         [checker |-> <<>>])
                 current_checker == merge_steps(Get(daily_completion, "checker", <<>>),
                                                Ticked(NumTasks, 1))
                 current_score == SumTrue(current_checker) * 5
                 new_points == current_score - Get(daily_completion, "checker_points_awarded", 0)
                 D1 == checker_finalize(D, username, today_str, daily_completion,
                                        current_checker, current_score)
             IN  IF new_points > 0
                 THEN <<update_user_points(D, username, new_points), D1>>
                 ELSE IF new_points < 0 THEN <<D1>> ELSE <<>>
        ELSE IF op = "kit_add"                 \* app.py:991-999
        THEN IF PRODUCTS[1].id \in kit_ids(user_data.kit)
             THEN <<>>
             ELSE <<[D EXCEPT ![username].kit = kit_add(@, PRODUCTS[1])]>>
        ELSE                                   \* app.py:1032-1034
             IF PRODUCTS[1].id \in kit_ids(user_data.kit)
             THEN <<[D EXCEPT ![username].kit = kit_remove(@, PRODUCTS[1].id)]>>
             ELSE <<>>

\* the page of the session's user runs on the loaded copy; failed is the set of its
\* save_data calls that fail
StoreOperate(s, op, failed) ==
    /\ sessions[s].pc = "loaded"
    /\ LET username == sessions[s].username
           D == get_user_data(sessions[s].DATA, username)
           created == IF username \in DOMAIN sessions[s].DATA THEN <<>> ELSE <<D>>
           snapshots == created \o op_snapshots(D, username, op, today)
           written == {i \in 1..Len(snapshots) : i \notin failed}
           last == CHOOSE i \in written : \A j \in written : j <= i
       IN  /\ failed \subseteq 1..Len(snapshots)
           /\ IF written = {}
              THEN UNCHANGED <<DATA, data_file_state>>
              ELSE /\ DATA' = save_data(DATA, snapshots[last])
                   /\ data_file_state' = "ok"
           /\ sessions' = [sessions EXCEPT ![s] =
                  [pc |-> "done",
                   username |-> username,
                   DATA |-> IF snapshots = <<>> THEN D ELSE snapshots[Len(snapshots)],
                   shown |-> sessions[s].shown
                               \cup (IF failed # {} THEN {"save_error"} ELSE {}),
                   saved |-> (written # {})]]
    /\ UNCHANGED <<USERS, logged_in_user, today, lastRun, metric_streak, awards, session_state_last_analysis>>

\* the run is over and its globals are gone
StoreEnd(s) ==
    /\ sessions[s].pc \in {"done", "crashed"}
    /\ sessions' = [sessions EXCEPT ![s] = IdleSession]
    /\ UNCHANGED <<USERS, DATA, logged_in_user, today, lastRun, metric_streak, awards,
                   data_file_state, session_state_last_analysis>>

(***************************************************************************)
(* The calendar: date.today() moves on.                                    *)
(***************************************************************************)
AdvanceDay(last) ==
    /\ today < last
    /\ today' = today + 1
    /\ awards' = EmptyDict          \* the history variables are about today
    /\ UNCHANGED <<USERS, DATA, logged_in_user, lastRun, metric_streak, data_file_state, sessions, session_state_last_analysis>>

(***************************************************************************)
(* Reading a date's record the way the code does (app.py:437, 903, 1401):  *)
(* a missing entry or field counts as not complete / nothing awarded.      *)
(***************************************************************************)
DayRecord(D, u, d) == IF u \in DOMAIN D THEN Get(D[u].daily_completion, d, EmptyDict) ELSE EmptyDict
PointsAwarded(D, u, d) == Get(DayRecord(D, u, d), "points_awarded", 0)
CheckerPointsAwarded(D, u, d) == Get(DayRecord(D, u, d), "checker_points_awarded", 0)
PointsOf(D, u) == IF u \in DOMAIN D THEN D[u].points ELSE 0
HistoryOf(D, u) == IF u \in DOMAIN D THEN D[u].analysis_history ELSE <<>>
IsPrefix(s, t) == Len(s) <= Len(t) /\ SubSeq(t, 1, Len(s)) = s

(***************************************************************************)
(* The main specification.  Both files are absent at the first run, so     *)
(* load_data creates them with the empty tables (app.py:42-45, 61-62).     *)
(***************************************************************************)
Init ==
    /\ USERS = EmptyDict
    /\ DATA = EmptyDict
    /\ logged_in_user = None
    /\ today = 1
    /\ lastRun = "ok"
    /\ metric_streak = NoMetric
    /\ awards = EmptyDict
    /\ data_file_state = "ok"
    /\ sessions = [s \in SessionIds |-> IdleSession]
    /\ session_state_last_analysis = NoAnalysis

\* the bounds on the tables
Capped(max_points, max_analyses) ==
    \A u \in DOMAIN DATA : /\ DATA[u].points <= max_points
                           /\ Len(DATA[u].analysis_history) <= max_analyses

\* the runs of the pages, with their inputs drawn from the given sets
Pages(users, profiles, files, lifestyles, ticks, counts, max_analyses) ==
    \/ \E u \in users, pw \in Passwords, salt \in Salts : Register(u, pw, salt)
    \/ \E u \in users, pw \in Passwords : Login(u, pw)
    \/ Logout
    \/ \E p \in profiles : Onboarding(p.primary_concerns, p.skin_type)
    \/ \E f \in files, lf \in lifestyles, b \in BOOLEAN :
          SkinAnalyzer(f, lf, b) /\ Capped(MaxPoints, max_analyses)'
    \/ \E m \in ticks, e \in ticks, b \in BOOLEAN :
          MyRoutine(m, e, b) /\ Capped(MaxPoints, max_analyses)'
    \/ \E k \in counts, b \in BOOLEAN :
          DailyChecker(k, b) /\ Capped(MaxPoints, max_analyses)'

\* one user over several days
Next ==
    \/ Pages({"u1"}, Profiles, Files, Lifestyles, FewTicks, 0..Min(MaxChecked, NumTasks),
             DayAnalyses)
    \/ AdvanceDay(MaxDay)

Spec == Init /\ [][Next]_vars

\* two users sharing the tables, on one day
NextUsers ==
    Pages(Users, {DefaultProfile}, Files, Lifestyles, {"all"}, 0..Min(MaxChecked, NumTasks),
          MaxAnalyses)

SpecUsers == Init /\ [][NextUsers]_vars

\* two users sharing the tables, with the kit pages
ClickedProducts == {0, PRODUCTS[1].id}

NextIsolation ==
    \/ Pages(Users, {DefaultProfile}, {GreyImage}, {DefaultLifestyle}, {"all"},
             {Min(MaxChecked, NumTasks)}, DayAnalyses)
    \/ \E clicked \in ClickedProducts : Marketplace({}, {}, clicked)
    \/ \E clicked \in ClickedProducts : PersonalizedKit(clicked)

SpecIsolation == Init /\ [][NextIsolation]_vars

\* one user who completes the routine day after day, and the dashboard
StreakDayDone ==
    \/ today <= GapDays
    \/ "u1" \in DOMAIN DATA /\ is_complete_on(DATA["u1"].daily_completion, today)

NextStreak ==
    \/ Register("u1", "pw", "s1")
    \/ Login("u1", "pw")
    \/ Onboarding(DefaultProfile.primary_concerns, DefaultProfile.skin_type)
    \/ SkinAnalyzer(GreyImage, DefaultLifestyle, TRUE) /\ Capped(10 + 5 * MaxStreakDay, 1)'
    \/ MyRoutine("all", "all", TRUE)
    \/ Dashboard
    \/ StreakDayDone /\ AdvanceDay(MaxStreakDay)

SpecStreak == Init /\ [][NextStreak]_vars

\* the sliders of the analyzer form (app.py:744-747), the water intake in half litres
AllLifestyles ==
    [sleep_hours : 4..12, water_halves : 1..8, stress_level : 1..10, diet_quality : 1..5]

\* uploads PIL can open: grey, reddish, pure red, black and white images
EngineFiles == {[present |-> TRUE, decodable |-> TRUE, rgb_mean |-> <<150, 150, 150>>],
                [present |-> TRUE, decodable |-> TRUE, rgb_mean |-> <<200, 100, 100>>],
                [present |-> TRUE, decodable |-> TRUE, rgb_mean |-> <<255, 0, 0>>],
                [present |-> TRUE, decodable |-> TRUE, rgb_mean |-> <<0, 0, 0>>],
                [present |-> TRUE, decodable |-> TRUE, rgb_mean |-> <<255, 255, 255>>]}

\* the state after u1 has registered, logged in and submitted the onboarding form
InitOnboarded(profiles) ==
    /\ USERS = ("u1" :> hash_password("pw", "s1"))
    /\ \E p \in profiles :
          DATA = ("u1" :> [NewUserRecord EXCEPT
                             !.onboarding = OnboardingRecord(p.primary_concerns, p.skin_type)])
    /\ logged_in_user = "u1"
    /\ today = 1
    /\ lastRun = "ok"
    /\ metric_streak = NoMetric
    /\ awards = EmptyDict
    /\ data_file_state = "ok"
    /\ sessions = [s \in SessionIds |-> IdleSession]
    /\ session_state_last_analysis = NoAnalysis

\* one analysis for every slider setting, skin type and image
NextScores ==
    /\ HistoryOf(DATA, "u1") = <<>>
    /\ \E f \in EngineFiles, lf \in AllLifestyles : SkinAnalyzer(f, lf, TRUE)

SpecScores ==
    InitOnboarded([primary_concerns : {{}, {"Acne"}}, skin_type : SKIN_TYPES]) /\ [][NextScores]_vars

\* analyses for every onboarding profile
RoutineFiles == {GreyImage,
                 [present |-> TRUE, decodable |-> TRUE, rgb_mean |-> <<200, 100, 100>>]}

EngineLifestyles ==
    Lifestyles \cup {[sleep_hours |-> 10, water_halves |-> 8, stress_level |-> 1,
                      diet_quality |-> 5]}

NextEngine ==
    \E f \in RoutineFiles, lf \in EngineLifestyles :
        SkinAnalyzer(f, lf, TRUE) /\ Capped(10 * MaxAnalyses, MaxAnalyses)'

SpecEngine ==
    InitOnboarded([primary_concerns : SUBSET CONCERNS, skin_type : SKIN_TYPES])
       /\ [][NextEngine]_vars

\* one user and the two kit pages
ConcernFilters == {{}, {"Wrinkles"}, {"Acne"}}
IngredientFilters == {{}, {"Retinol"}}
ProductIds == {PRODUCTS[i].id : i \in 1..Len(PRODUCTS)}

NextKit ==
    \/ Register("u1", "pw", "s1")
    \/ Login("u1", "pw")
    \/ Logout
    \/ \E c \in ConcernFilters, g \in IngredientFilters, clicked \in ProductIds \cup {0} :
          Marketplace(c, g, clicked)
    \/ \E clicked \in ProductIds \cup {0} : PersonalizedKit(clicked)

SpecKit == Init /\ [][NextKit]_vars

\* two sessions on one store, which starts absent or malformed
FileStates == {"absent", "bad_json", "bad_bytes"}

InitStore ==
    /\ USERS = EmptyDict
    /\ DATA = EmptyDict
    /\ logged_in_user = None
    /\ today = 1
    /\ lastRun = "ok"
    /\ metric_streak = NoMetric
    /\ awards = EmptyDict
    /\ data_file_state \in FileStates
    /\ sessions = [s \in SessionIds |-> IdleSession]
    /\ session_state_last_analysis = NoAnalysis

\* the runs of the given sessions
Runs(session_ids, ops, failures) ==
    \/ \E s \in session_ids, u \in Users : StoreLoad(s, u)
    \/ \E s \in session_ids, op \in ops, failed \in failures :
          StoreOperate(s, op, failed) /\ Capped(MaxPoints, DayAnalyses)'
    \/ \E s \in session_ids : StoreEnd(s)

\* one session whose save_data calls can fail
NextStore == Runs({"A"}, StoreOps, SUBSET (1..3))

SpecStore == InitStore /\ [][NextStore]_vars

\* two sessions whose save_data calls succeed
NextSessions == Runs(SessionIds, {"onboarding", "analysis", "checker"}, {{}})

SpecSessions == InitStore /\ [][NextSessions]_vars

\* the login and register forms with several usernames, passwords and salts
AuthUsers == {"u1", "u2", ""}
AuthPasswords == {"pw", "bad", ""}
AuthSalts == {"s1", "s2"}

NextAuth ==
    \/ \E u \in AuthUsers, pw \in AuthPasswords, salt \in AuthSalts : Register(u, pw, salt)
    \/ \E u \in AuthUsers, pw \in AuthPasswords : Login(u, pw)
    \/ Logout

SpecAuth == Init /\ [][NextAuth]_vars

(***************************************************************************)
(* C1.  On one date the routine finalize handler grants at most 5 points   *)
(* to a user in total, however often it is run and whatever the boxes are. *)
(***************************************************************************)
C1_RoutineAwardedOnce ==
    \A u \in Users : AwardOf(u).routine <= 5

\* the award was granted and the routine was finalized again afterwards
C1_Witness ==
    \E u \in Users : AwardOf(u).routine = 5 /\ AwardOf(u).finalizes = 2

(***************************************************************************)
(* C2.  As claimed: a date's points_awarded and checker_points_awarded     *)
(* never decrease, and the points granted for the date by the two finalize *)
(* handlers never exceed their sum.                                        *)
(***************************************************************************)
C2_AwardsBoundGranted ==
    /\ [](\A u \in Users :
            AwardOf(u).routine + AwardOf(u).checker
               <= PointsAwarded(DATA, u, today) + CheckerPointsAwarded(DATA, u, today))
    /\ [][\A u \in Users : \A d \in 1..today :
            /\ PointsAwarded(DATA', u, d) >= PointsAwarded(DATA, u, d)
            /\ CheckerPointsAwarded(DATA', u, d) >= CheckerPointsAwarded(DATA, u, d)]_vars

C4_RefinalizeKeepsAward ==
    [][\A m \in TickChoices, e \in TickChoices :
          (AwardOf(logged_in_user).finalizes >= 1 /\ MyRoutine(m, e, TRUE))
             => PointsAwarded(DATA', logged_in_user, today)
                  = PointsAwarded(DATA, logged_in_user, today)]_vars

(***************************************************************************)
(* C5.  A checker finalize whose score is below the date's                 *)
(* checker_points_awarded stores the ticked tasks and leaves the user's    *)
(* points and checker_points_awarded unchanged.                            *)
(***************************************************************************)
C5_NoClawBack ==
    [][\A k \in 0..Min(MaxChecked, NumTasks) :
          (5 * k < CheckerPointsAwarded(DATA, logged_in_user, today) /\ DailyChecker(k, TRUE))
             => /\ DayRecord(DATA', logged_in_user, today).checker = Ticked(NumTasks, k)
                /\ PointsOf(DATA', logged_in_user) = PointsOf(DATA, logged_in_user)
                /\ CheckerPointsAwarded(DATA', logged_in_user, today)
                     = CheckerPointsAwarded(DATA, logged_in_user, today)]_vars

\* the stored task states score less than what was awarded
C5_Witness ==
    \E u \in Users :
       /\ "checker" \in DOMAIN DayRecord(DATA, u, today)
       /\ 5 * SumTrue(DayRecord(DATA, u, today).checker) < CheckerPointsAwarded(DATA, u, today)

(***************************************************************************)
(* C6.  Every user's points are a natural number and no step decreases     *)
(* them.                                                                   *)
(***************************************************************************)
C6_PointsMonotone ==
    /\ [](\A u \in DOMAIN DATA : DATA[u].points \in Nat)
    /\ [][\A u \in DOMAIN DATA : u \in DOMAIN DATA' /\ DATA'[u].points >= DATA[u].points]_vars

\* both users hold points, from analyses and from finalizes
C6_Witness ==
    /\ PointsOf(DATA, "u1") >= 15
    /\ PointsOf(DATA, "u2") >= 15

(***************************************************************************)
(* C7.  A submitted analysis of a decodable upload by an onboarded user    *)
(* appends exactly one result to the user's history and adds exactly 10 to *)
(* the user's points, whatever the history already holds.                  *)
(***************************************************************************)
C7_AnalysisGrantsTen ==
    [][\A f \in Files, lf \in Lifestyles :
          (/\ f.present /\ f.decodable
           /\ logged_in_user \in DOMAIN DATA
           /\ DOMAIN DATA[logged_in_user].onboarding # {}
           /\ SkinAnalyzer(f, lf, TRUE))
             => /\ Len(HistoryOf(DATA', logged_in_user)) = Len(HistoryOf(DATA, logged_in_user)) + 1
                /\ IsPrefix(HistoryOf(DATA, logged_in_user), HistoryOf(DATA', logged_in_user))
                /\ PointsOf(DATA', logged_in_user) = PointsOf(DATA, logged_in_user) + 10]_vars

\* two analyses of one user, 20 points from them
C7_Witness ==
    \E u \in Users : Len(HistoryOf(DATA, u)) = 2 /\ PointsOf(DATA, u) >= 20

(***************************************************************************)
(* C8.  The number of consecutive dates before day t whose record says     *)
(* is_complete, counted back from t - 1 to the first date that does not.   *)
(***************************************************************************)
ConsecutiveComplete(daily_completions, t) ==
    CHOOSE n \in 0..t : /\ \A i \in 1..n : is_complete_on(daily_completions, t - i)
                        /\ ~is_complete_on(daily_completions, t - n - 1)

C9_PagesNeverRaise == lastRun # "KeyError"

(***************************************************************************)
(* C10.  In every step each user's analysis history keeps its entries as a *)
(* prefix and grows by at most one entry.                                  *)
(***************************************************************************)
C10_HistoryAppendOnly ==
    [][\A u \in DOMAIN DATA :
          /\ IsPrefix(HistoryOf(DATA, u), HistoryOf(DATA', u))
          /\ Len(HistoryOf(DATA', u)) <= Len(HistoryOf(DATA, u)) + 1]_vars

\* a history of two different results
C10_Witness ==
    \E u \in Users : /\ Len(HistoryOf(DATA, u)) = 2
                     /\ HistoryOf(DATA, u)[1] # HistoryOf(DATA, u)[2]

(***************************************************************************)
(* C11.  Submitting the register form with a username that has a           *)
(* credential record ends with the user_exists error and leaves both       *)
(* tables as they are.                                                     *)
(***************************************************************************)
C11_DuplicateRegisterRefused ==
    [][\A u \in AuthUsers, pw \in AuthPasswords, salt \in AuthSalts :
          (u \in DOMAIN USERS /\ Register(u, pw, salt))
             => /\ lastRun' = "user_exists"
                /\ USERS' = USERS
                /\ DATA' = DATA]_vars

\* a refused registration while two users hold different passwords and salts
C11_Witness ==
    /\ lastRun = "user_exists"
    /\ DOMAIN USERS = {"u1", "u2"}
    /\ USERS["u1"].password # USERS["u2"].password
    /\ USERS["u1"].salt # USERS["u2"].salt

(***************************************************************************)
(* C12.  A submitted login form logs the user in exactly when the username *)
(* has a credential record whose hash is the hash of the password with the *)
(* stored salt; every other login, with an unknown username or with a      *)
(* wrong password alike, ends with the same invalid_cred error, nobody     *)
(* logged in and both tables unchanged.                                    *)
(***************************************************************************)
C12_LoginOutcomes ==
    [][\A u \in AuthUsers, pw \in AuthPasswords :
          Login(u, pw)
             => /\ USERS' = USERS /\ DATA' = DATA
                /\ IF u \in DOMAIN USERS /\ USERS[u].password = sha256(pw, USERS[u].salt)
                   THEN logged_in_user' = u /\ lastRun' = "ok"
                   ELSE logged_in_user' = None /\ lastRun' = "invalid_cred"]_vars

\* a refused login while one username is known and another is not
C12_Witness ==
    /\ lastRun = "invalid_cred"
    /\ logged_in_user = None
    /\ "u1" \in DOMAIN USERS
    /\ "u2" \notin DOMAIN USERS

(***************************************************************************)
(* C13.  As claimed: a submitted analysis whose upload cannot be decoded   *)
(* completes with the fallback features: one result is appended, 10 points *)
(* are granted and the run does not end in an exception.                   *)
(***************************************************************************)
C13_UndecodableStillAnalysed ==
    [][\A f \in Files, lf \in Lifestyles :
          (/\ f.present /\ ~f.decodable
           /\ logged_in_user \in DOMAIN DATA
           /\ DOMAIN DATA[logged_in_user].onboarding # {}
           /\ SkinAnalyzer(f, lf, TRUE))
             => /\ lastRun' = "ok"
                /\ Len(HistoryOf(DATA', logged_in_user)) = Len(HistoryOf(DATA, logged_in_user)) + 1
                /\ HistoryOf(DATA', logged_in_user)[Len(HistoryOf(DATA', logged_in_user))]
                      .image_features.avg_brightness3 = FallbackFeatures.brightness3
                /\ PointsOf(DATA', logged_in_user) = PointsOf(DATA, logged_in_user) + 10]_vars

(***************************************************************************)
(* C17.  Every analysis result, for every slider setting, skin type and    *)
(* image, has current_score in 50..95, hydration_score in 50..99,          *)
(* acne_risk_pct in 10..90 and pigmentation_risk_pct in 5..70.             *)
(***************************************************************************)
C17_ScoresInRange ==
    \A u \in DOMAIN DATA : \A i \in 1..Len(DATA[u].analysis_history) :
        LET r == DATA[u].analysis_history[i]
        IN  /\ r.current_score \in 50..95
            /\ r.hydration_score \in 50..99
            /\ r.acne_risk_pct \in 10..90
            /\ r.pigmentation_risk_pct \in 5..70

\* a result whose hydration and score were clamped
C17_Witness ==
    \E u \in DOMAIN DATA : \E i \in 1..Len(DATA[u].analysis_history) :
        LET r == DATA[u].analysis_history[i]
        IN  /\ r.hydration_score = 99
            /\ r.current_score = 50
            /\ r.acne_risk_pct > 50

C19_RoutineOverrides ==
    \A u \in DOMAIN DATA : \A i \in 1..Len(DATA[u].analysis_history) :
        LET r == DATA[u].analysis_history[i]
            concerns == DATA[u].onboarding.primary_concerns
            evening == r.routine_evening
            bha == "Acne" \in concerns \/ r.acne_risk_pct > 50
            retinoid == "Wrinkles" \in concerns
        IN  /\ r.routine_morning = <<"Cleanse: Gentle Hydrating Cleanser",
                                     "Treat: Vitamin C Serum", "Protect: SPF 30+ Sunscreen">>
            /\ Len(evening) = IF retinoid THEN 4 ELSE 3
            /\ evening[1] = "Cleanse: Double Cleanse (Oil + Foam)"
            /\ evening[2] = IF bha THEN "Treat: Salicylic Acid (BHA) Serum"
                                   ELSE "Treat: Niacinamide Serum"
            /\ evening[3] = "Moisturize: Barrier Repair Cream"
            /\ retinoid => evening[4] = "Treat: Retinoid Cream (3x/week)"

\* both adjustments at once, the first one because of the risk alone
C19_Witness ==
    \E u \in DOMAIN DATA : \E i \in 1..Len(DATA[u].analysis_history) :
        /\ "Acne" \notin DATA[u].onboarding.primary_concerns
        /\ "Wrinkles" \in DATA[u].onboarding.primary_concerns
        /\ DATA[u].analysis_history[i].acne_risk_pct > 50
        /\ Len(DATA[u].analysis_history[i].routine_evening) = 4

(***************************************************************************)
(* C20.  No kit holds two entries with the same product id, and a step     *)
(* keeps the order of the entries that stay: entries that were in the kit  *)
(* keep their relative order and a new entry comes after them.             *)
(***************************************************************************)
KitOf(D, u) == IF u \in DOMAIN D THEN D[u].kit ELSE <<>>
IdsIn(kit) == {kit[i].id : i \in 1..Len(kit)}
KitPos(kit, product_id) == CHOOSE i \in 1..Len(kit) : kit[i].id = product_id

C20_KitUniqueOrdered ==
    /\ [](\A u \in DOMAIN DATA :
             \A i, j \in 1..Len(DATA[u].kit) : DATA[u].kit[i].id = DATA[u].kit[j].id => i = j)
    /\ [][\A u \in DOMAIN DATA :
             LET old == KitOf(DATA, u)
                 new == KitOf(DATA', u)
             IN  \A a, b \in IdsIn(new) :
                    /\ (a \in IdsIn(old) /\ b \in IdsIn(old))
                          => (KitPos(new, a) < KitPos(new, b) <=> KitPos(old, a) < KitPos(old, b))
                    /\ (a \in IdsIn(old) /\ b \notin IdsIn(old))
                          => KitPos(new, a) < KitPos(new, b)]_vars

\* a kit whose order is not the order of the ids
C20_Witness ==
    \E u \in DOMAIN DATA :
        /\ lastRun = "ok"
        /\ Len(DATA[u].kit) = 3
        /\ DATA[u].kit[1].id > DATA[u].kit[2].id
        /\ DATA[u].kit[3].id = 1

(***************************************************************************)
(* C14.  As claimed: when a save_data call of a handler fails, the error   *)
(* is shown and the user's record in the run's copy of DATA is what it was *)
(* before the handler ran.                                                 *)
(***************************************************************************)
C14_FailedWriteLeavesMemory ==
    [][\A s \in SessionIds, op \in StoreOps, failed \in SUBSET (1..3) :
          (failed # {} /\ StoreOperate(s, op, failed))
             => /\ "save_error" \in sessions'[s].shown
                /\ Get(sessions'[s].DATA, sessions[s].username, NewUserRecord)
                     = Get(sessions[s].DATA, sessions[s].username, NewUserRecord)]_vars

(***************************************************************************)
(* C15.  As claimed: loading an absent file returns the default and leaves *)
(* the file created with the default; loading a malformed file returns the *)
(* default and raises nothing.                                             *)
(***************************************************************************)
C15_LoadFallsBack ==
    [][\A s \in SessionIds, u \in Users :
          StoreLoad(s, u)
             => /\ data_file_state = "absent"
                     => /\ sessions'[s].pc = "loaded"
                        /\ sessions'[s].DATA = EmptyDict
                        /\ data_file_state' = "ok"
                        /\ DATA' = EmptyDict
                /\ data_file_state \in {"bad_json", "bad_bytes"}
                     => /\ sessions'[s].pc = "loaded"
                        /\ sessions'[s].DATA = EmptyDict]_vars

(***************************************************************************)
(* C16.  A run that saves writes its whole copy of DATA: after the save    *)
(* the file holds, for every user other than the run's own, the record the *)
(* run loaded, whatever another session has saved since.  So there are     *)
(* interleavings of two runs after which the file lacks what one of them   *)
(* saved (the witness).                                                    *)
(***************************************************************************)
C16_SaveOverwritesStore ==
    [][\A s \in SessionIds, op \in StoreOps :
          (StoreOperate(s, op, {}) /\ sessions'[s].saved)
             => \A v \in Users \ {sessions[s].username} :
                   Get(DATA', v, EmptyDict) = Get(sessions[s].DATA, v, EmptyDict)]_vars

\* both runs are over, both saved, and the file lacks the analysis and the points that
\* one of them saved for its user
C16_Witness ==
    \E s \in SessionIds :
        LET u == sessions[s].username
        IN  /\ \A t \in SessionIds : sessions[t].pc = "done" /\ sessions[t].saved
            /\ Len(sessions[s].DATA[u].analysis_history) = 1
            /\ sessions[s].DATA[u].points = 10
            /\ HistoryOf(DATA, u) = <<>>
            /\ PointsOf(DATA, u) = 0

(***************************************************************************)
(* C21.  A run of the routine page or of the checker page in which no      *)
(* finalize button is pressed leaves data.json as it is, whatever boxes    *)
(* are ticked; and a step that changes a date's is_complete,               *)
(* points_awarded or checker_points_awarded is a run with a finalize       *)
(* button pressed.                                                         *)
(***************************************************************************)
C21_TickingHasNoEffect ==
    [][DATA' # DATA
         => /\ ~ \/ \E m \in FewTicks, e \in FewTicks : MyRoutine(m, e, FALSE)
                 \/ \E k \in 0..Min(MaxChecked, NumTasks) : DailyChecker(k, FALSE)
            /\ (\E u \in Users : \E d \in 1..today :
                   \/ Get(DayRecord(DATA', u, d), "is_complete", FALSE)
                         # Get(DayRecord(DATA, u, d), "is_complete", FALSE)
                   \/ PointsAwarded(DATA', u, d) # PointsAwarded(DATA, u, d)
                   \/ CheckerPointsAwarded(DATA', u, d) # CheckerPointsAwarded(DATA, u, d))
                => \/ \E m \in FewTicks, e \in FewTicks : MyRoutine(m, e, TRUE)
                   \/ \E k \in 0..Min(MaxChecked, NumTasks) : DailyChecker(k, TRUE)]_vars

\* a date in progress: its routine is stored unticked and its checker is awarded
C21_Witness ==
    \E u \in Users :
        /\ logged_in_user = u
        /\ "morning" \in DOMAIN DayRecord(DATA, u, today)
        /\ ~Get(DayRecord(DATA, u, today), "is_complete", FALSE)
        /\ CheckerPointsAwarded(DATA, u, today) = 5


(***************************************************************************)
(* C22.  The regression case of the lower clamp: with sleep 7, water 2.0,  *)
(* stress 5, diet 3 and the fallback image features (brightness 150,       *)
(* contrast 1.0, redness 1.0) the raw score lies between 38.8 and 38.9,    *)
(* below 50, and the result carries current_score 50.                      *)
(***************************************************************************)
HasFallbackFeatures(r) ==
    r.image_features = [avg_brightness3 |-> FallbackFeatures.brightness3,
                        redness_factor_12 |-> FallbackFeatures.red]

C22_FloorClampExample ==
    \A u \in DOMAIN DATA : \A i \in 1..Len(DATA[u].analysis_history) :
        LET r == DATA[u].analysis_history[i]
        IN  (HasFallbackFeatures(r) /\ r.lifestyle_factors = DefaultLifestyle)
               => /\ 10 * raw_score_6120(FallbackFeatures, DefaultLifestyle) >= 388 * 6120
                  /\ 10 * raw_score_6120(FallbackFeatures, DefaultLifestyle) < 389 * 6120
                  /\ raw_score_6120(FallbackFeatures, DefaultLifestyle) < 50 * 6120
                  /\ r.current_score = 50

\* the example has been analysed
C22_Witness ==
    \E u \in DOMAIN DATA : \E i \in 1..Len(DATA[u].analysis_history) :
        LET r == DATA[u].analysis_history[i]
        IN  /\ HasFallbackFeatures(r)
            /\ r.lifestyle_factors = DefaultLifestyle
            /\ r.current_score = 50


(***************************************************************************)
(* C23.  Every integer metric of a result is its formula value rounded to  *)
(* the nearest integer and then clamped.  The code converts with int(),    *)
(* which truncates toward zero: water 4.0 with brightness 150 has the      *)
(* formula value 83.53 and hydration_score 83.  C23_RoundedToNearest is    *)
(* the statement with rounding, C23_TruncatedTowardZero the one the code   *)
(* satisfies: the metric is the clamped truncation of the formula value,   *)
(* or, where that value is an integer and the double-precision product    *)
(* falls just inside it, the clamped next integer toward zero.             *)
(* future_delta is not stored; it is read from future_score_proj_30.       *)
(***************************************************************************)
FeaturesOf(r) ==
    [brightness3 |-> r.image_features.avg_brightness3,
     contrast_half |-> (r.image_features.avg_brightness3 < 300
                          \/ r.image_features.avg_brightness3 > 600),
     red |-> r.image_features.redness_factor_12]

\* t is n/d truncated toward zero
IsTruncation(t, n, d) ==
    IF n >= 0 THEN t * d <= n /\ n < (t + 1) * d
              ELSE (t - 1) * d < n /\ n <= t * d

\* t is what int() gives for a double-precision value of n/d
IsIntOfFloat(t, n, d) ==
    \/ IsTruncation(t, n, d)
    \/ t >= 0 /\ n = (t + 1) * d
    \/ t <= 0 /\ n = (t - 1) * d

\* t is an integer nearest to n/d
IsNearest(t, n, d) == 2 * (n - t * d) <= d /\ 2 * (t * d - n) <= d

MetricRange == -60..140

\* <<numerator, denominator, low, high, stored value>> of the clamped metrics
ClampedMetrics(r) ==
    LET f == FeaturesOf(r)
        lf == r.lifestyle_factors
        oily == IF r.detected_skin_type \in {"Oily", "Combination"} THEN 20 ELSE 0
    IN  {<<IF f.red THEN 5 * raw_score_6120(f, lf) ELSE raw_score_6120(f, lf),
           IF f.red THEN 36720 ELSE 6120, 50, 95, r.current_score>>,
         <<11475 * lf.water_halves + 80 * f.brightness3, 1530, 50, 99, r.hydration_score>>,
         <<120 - r.current_score + oily + 3 * lf.stress_level - 4 * lf.diet_quality, 2,
           10, 90, r.acne_risk_pct>>,
         <<137700 - 24 * f.brightness3 - (IF f.contrast_half THEN 4590 ELSE 0)
             - 3825 * lf.water_halves, 3060, 5, 70, r.pigmentation_risk_pct>>,
         <<100 * (10 - lf.sleep_hours), 5, -60, 140, r.sleep_impact_pct>>,
         <<100 * lf.stress_level, 10, -60, 140, r.stress_impact_pct>>}

MetricsConverted(r, to_nearest) ==
    LET Converts(t, n, d) == IF to_nearest THEN IsNearest(t, n, d) ELSE IsIntOfFloat(t, n, d)
    IN
    /\ \A m \in ClampedMetrics(r) :
          \E t \in MetricRange :
              Converts(t, m[1], m[2]) /\ m[5] = Max(m[3], Min(m[4], t))
    /\ \E t \in MetricRange :
          /\ Converts(t, lifestyle_impact_800(r.lifestyle_factors) - 400, 40)
          /\ r.future_score_proj_30 = Min(100, r.current_score + Max(0, t))

C23_RoundedToNearest ==
    \A u \in DOMAIN DATA : \A i \in 1..Len(DATA[u].analysis_history) :
        MetricsConverted(DATA[u].analysis_history[i], TRUE)

C23_TruncatedTowardZero ==
    \A u \in DOMAIN DATA : \A i \in 1..Len(DATA[u].analysis_history) :
        MetricsConverted(DATA[u].analysis_history[i], FALSE)

\* water 4.0 and brightness 150: the formula value 83.53 is stored as 83
C23_Witness ==
    \E u \in DOMAIN DATA : \E i \in 1..Len(DATA[u].analysis_history) :
        LET r == DATA[u].analysis_history[i]
        IN  /\ r.image_features.avg_brightness3 = 450
            /\ r.lifestyle_factors.water_halves = 8
            /\ r.hydration_score = 83


(***************************************************************************)
(* C24.  For every slider setting each normalised factor lies in [0,1]:    *)
(* of every analysed lifestyle, 0 <= sleep_score, water_score,             *)
(* stress_score, diet_score <= 1.  The sliders allow 4..12 hours of sleep  *)
(* and (sleep_hours - 5) / 5 is -0.2 at 4 hours and 1.4 at 12.             *)
(***************************************************************************)
C24_FactorsNormalised ==
    \A u \in DOMAIN DATA : \A i \in 1..Len(DATA[u].analysis_history) :
        LET lf == DATA[u].analysis_history[i].lifestyle_factors
        IN  /\ sleep_score_5(lf) \in 0..5
            /\ water_score_8(lf) \in 0..8
            /\ stress_score_10(lf) \in 0..10
            /\ diet_score_5(lf) \in 0..5


(***************************************************************************)
(* C25.  The two finalizes of one date leave each other's part of the      *)
(* entry alone: a run that changes the checker tasks or                    *)
(* checker_points_awarded of today's entry is not a routine finalize, and  *)
(* a run that changes its morning or evening steps, is_complete or         *)
(* points_awarded is not a checker finalize.  The routine finalize stores  *)
(* a new entry of four keys (app.py:913-918) and so drops the checker's.   *)
(***************************************************************************)
CheckerPart(rec) ==
    <<Get(rec, "checker", EmptyDict), Get(rec, "checker_points_awarded", 0)>>

RoutinePart(rec) ==
    <<Get(rec, "morning", EmptyDict), Get(rec, "evening", EmptyDict),
      Get(rec, "is_complete", FALSE), Get(rec, "points_awarded", 0)>>

C25_FinalizesIndependent ==
    [][\A u \in Users :
          /\ CheckerPart(DayRecord(DATA', u, today)) # CheckerPart(DayRecord(DATA, u, today))
                => ~ \E m \in FewTicks, e \in FewTicks : MyRoutine(m, e, TRUE)
          /\ RoutinePart(DayRecord(DATA', u, today)) # RoutinePart(DayRecord(DATA, u, today))
                => ~ \E k \in 0..Min(MaxChecked, NumTasks) : DailyChecker(k, TRUE)]_vars


(***************************************************************************)
(* C26.  A finalize on day T creates or modifies only the entry of day T:  *)
(* no step of the program changes, creates or removes the entry of a date  *)
(* other than the current one, so the is_complete of a date that has       *)
(* passed keeps its value for ever.                                        *)
(***************************************************************************)
DatesOf(D, u) == IF u \in DOMAIN D THEN DOMAIN D[u].daily_completion ELSE {}

C26_OnlyTodaysEntry ==
    [][DATA' # DATA
         => \A u \in Users :
               /\ \A d \in (DatesOf(DATA, u) \cup DatesOf(DATA', u)) \ {today} :
                      /\ d \in DatesOf(DATA, u) /\ d \in DatesOf(DATA', u)
                      /\ DayRecord(DATA', u, d) = DayRecord(DATA, u, d)
               /\ \A d \in 1..(today - 1) :
                      Get(DayRecord(DATA', u, d), "is_complete", FALSE)
                        = Get(DayRecord(DATA, u, d), "is_complete", FALSE)]_vars

\* both finalizes have acted on a day that follows a finalized day
C26_Witness ==
    \E u \in Users :
        /\ today > 1
        /\ "is_complete" \in DOMAIN DayRecord(DATA, u, today - 1)
        /\ "is_complete" \in DOMAIN DayRecord(DATA, u, today)
        /\ "checker" \in DOMAIN DayRecord(DATA, u, today)


(***************************************************************************)
(* C27.  Whatever the logged-in user does (onboarding, analysis, routine   *)
(* or checker finalize, kit add or remove, or only looking at a page), the *)
(* credentials stay as they are and so does the record of every other      *)
(* user: its onboarding, analysis_history, points, daily_completion and    *)
(* kit; no record of another user appears or disappears.                   *)
(***************************************************************************)
C27_OnlyOwnRecord ==
    [][logged_in_user # None
         => /\ USERS' = USERS
            /\ \A u \in Users \ {logged_in_user} :
                  /\ u \in DOMAIN DATA' <=> u \in DOMAIN DATA
                  /\ u \in DOMAIN DATA => DATA'[u] = DATA[u]]_vars

\* one user has acted on every part of the record while the other holds a full one
C27_Witness ==
    \E u, v \in DOMAIN DATA :
        /\ u # v
        /\ logged_in_user = u
        /\ \A w \in {u, v} :
              /\ DOMAIN DATA[w].onboarding # {}
              /\ DATA[w].analysis_history # <<>>
              /\ DATA[w].kit # <<>>
              /\ "is_complete" \in DOMAIN DayRecord(DATA, w, today)
              /\ "checker" \in DOMAIN DayRecord(DATA, w, today)


(***************************************************************************)
(* C28.  The analysis the Skin Analyzer page displays and exports for the  *)
(* logged-in user is an entry of that user's own analysis_history: no run  *)
(* of the page that reaches the report section shows an analysis that the  *)
(* history of the logged-in user does not hold.  The page prefers          *)
(* st.session_state['last_analysis'], which the logout leaves in place     *)
(* (app.py:346-349), so the next user of the session is shown it.          *)
(***************************************************************************)
EntriesOf(history) == {history[i] : i \in 1..Len(history)}

C28_DisplayedIsOwn ==
    [][\A u \in Users :
          (/\ logged_in_user = u
           /\ lastRun' = "ok"
           /\ u \in DOMAIN DATA'
           /\ DOMAIN DATA'[u].onboarding # {}
           /\ DATA'[u].analysis_history # <<>>
           /\ analysis_shown(session_state_last_analysis', DATA'[u])
           /\ current_analysis_of(session_state_last_analysis', DATA'[u])
                  \notin EntriesOf(DATA'[u].analysis_history))
             => ~ \E f \in Files, lf \in Lifestyles, b \in BOOLEAN : SkinAnalyzer(f, lf, b)]_vars


(***************************************************************************)
(* C29.  An acne risk above 50 needs the oily bonus: for a skin type other *)
(* than Oily and Combination acne_risk_pct is at most 48.  Hence           *)
(* pore_visibility_estimate is 'High' exactly for the skin types Oily and  *)
(* Combination, and for the other skin types the evening routine has the   *)
(* BHA serum only if 'Acne' is among the user's concerns.                  *)
(***************************************************************************)
C29_AcneRiskNeedsOilyBonus ==
    \A u \in DOMAIN DATA : \A i \in 1..Len(DATA[u].analysis_history) :
        LET r == DATA[u].analysis_history[i]
            oily == r.detected_skin_type \in {"Oily", "Combination"}
        IN  /\ r.acne_risk_pct > 50 => oily
            /\ ~oily => r.acne_risk_pct <= 48
            /\ r.pore_visibility_estimate = "High" <=> oily
            /\ (~oily /\ r.routine_evening[2] = "Treat: Salicylic Acid (BHA) Serum")
                  => "Acne" \in DATA[u].onboarding.primary_concerns

\* the largest risk without the bonus, and the bonus lifting the risk over 50
C29_Witness ==
    \E u \in DOMAIN DATA : \E i \in 1..Len(DATA[u].analysis_history) :
        LET r == DATA[u].analysis_history[i]
        IN  /\ r.detected_skin_type = "Normal"
            /\ r.acne_risk_pct = 48
            /\ r.pore_visibility_estimate = "Low"
            /\ r.routine_evening[2] = "Treat: Niacinamide Serum"


(***************************************************************************)
(* C30.  The projections of every stored result are ordered and capped:    *)
(* current_score <= future_score_proj_7 <= future_score_proj_30            *)
(* <= future_score_proj_90 <= 100.  So the condition of the kit page,      *)
(* future_score_proj_90 < current_score (app.py:1057), holds for none.     *)
(***************************************************************************)
C30_ProjectionsOrdered ==
    \A u \in DOMAIN DATA : \A i \in 1..Len(DATA[u].analysis_history) :
        LET r == DATA[u].analysis_history[i]
        IN  /\ r.current_score <= r.future_score_proj_7
            /\ r.future_score_proj_7 <= r.future_score_proj_30
            /\ r.future_score_proj_30 <= r.future_score_proj_90
            /\ r.future_score_proj_90 <= 100
            /\ ~(r.future_score_proj_90 < r.current_score)

\* a result whose projections rise strictly up to the cap
C30_Witness ==
    \E u \in DOMAIN DATA : \E i \in 1..Len(DATA[u].analysis_history) :
        LET r == DATA[u].analysis_history[i]
        IN  /\ r.current_score < r.future_score_proj_7
            /\ r.future_score_proj_7 < r.future_score_proj_30
            /\ r.future_score_proj_30 < r.future_score_proj_90
            /\ r.future_score_proj_90 = 100

====
